---- MODULE Spec2Model ----
(***************************************************************************)
(* mouse-con: keyboard / mouse to virtual gamepad translator (src/main.rs). *)
(*                                                                         *)
(* The model follows the three winit callbacks of App (resumed,            *)
(* new_events, device_event) and the methods of AppState they call.        *)
(* Every fallible call of the code (device creation, device.send,          *)
(* device.synchronize, Command::spawn, Child::kill, Child::wait) is a      *)
(* nondeterministic choice between Ok and Err, handled as the code         *)
(* handles it (eprintln and continue, or unwrap/expect = panic).           *)
(*                                                                         *)
(* Reals: mouse deltas are carried in thousandths of a unit, map_range is  *)
(* computed exactly as a fraction, and trunc(sqrt(q)) is the integer       *)
(* square root of floor(q).                                                *)
(* Time: milliseconds on an abstract clock `now`.                          *)
(***************************************************************************)
EXTENDS Integers, Sequences, FiniteSets

\* ------------------------------------------------------------------ bounds
\* The clock stops advancing at MaxTime (ms).
MaxTime == 30
\* At most MaxEvents device events are delivered in a run.
MaxEvents == 2
\* At most MaxHelpers helper processes exist at once (bounds the pid space).
MaxHelpers == 3
\* At most MaxFaults of the fallible calls made in a run return Err.
MaxFaults == 1
\* The Motion Shaper is called on its own with deltas of at most MaxShapeDelta
\* thousandths in each direction.
MaxShapeDelta == 45

\* --------------------------------------------------------------- constants
MOUSE_SENSITIVITY == 250
\* Duration::from_millis(20) of device_event's wait_duration
RecenterMillis == 20
\* range of the i32 that `as i32` saturates to
I32Max == 2147483647
\* declared range of the four absolute axes (.min(-127) .max(128))
AxisMin == -127
AxisMax == 128

\* ------------------------------------------------------------ Option<T>
\* Option values are sets with at most one element: {} is None, {x} Some(x).
None == {}
Some(x) == {x}
unwrap(o) == CHOOSE x \in o : TRUE

\* ---------------------------------------------------------- input alphabet
\* Physical keys drawn by the environment.  KeyZ is in no table.
Keys ==
    {"KeyA", "KeyD", "KeyW", "KeyS", "KeyI", "KeyV", "KeyZ", "Delete", "Backslash"}
\* Mouse buttons drawn by the environment.  2 is in no table.
Buttons == {1, 2}
\* Mouse deltas (dx, dy) in thousandths: none, inside the calibrated range
\* (0.04 = 40), 5.0 and 6.0 units.
Deltas == {<<0, 0>>, <<40, -40>>, <<5000, 0>>, <<-6000, 6000>>}
\* Outcome of one AppState::send: did device.send / device.synchronize succeed
SendResults == [send : BOOLEAN, sync : BOOLEAN]
AllOk == [send |-> TRUE, sync |-> TRUE]
\* number of Errs among the flags of a record of outcomes
Errs(r) == Cardinality({f \in DOMAIN r : ~r[f]})

\* ------------------------------------------------------------ Mapping tables
NudgeKeys == {"KeyW", "KeyA", "KeyS", "KeyD"}
\* the keys of the alphabet that a table maps
HeldKeys == NudgeKeys \cup {"KeyI", "KeyV"}

key_to_controller_event(key) ==
    CASE key = "KeyC"        -> Some("GamePad::B")
      [] key = "Space"       -> Some("GamePad::Y")
      [] key = "ShiftLeft"   -> Some("GamePad::A")
      [] key = "KeyM"        -> Some("GamePad::Start")
      [] key = "KeyN"        -> Some("GamePad::Select")
      [] key = "KeyQ"        -> Some("GamePad::TL")
      [] key = "KeyE"        -> Some("GamePad::TR")
      [] key = "KeyX"        -> Some("GamePad::ThumbL")
      [] key = "KeyG"        -> Some("GamePad::ThumbR")
      [] key = "ControlLeft" -> Some("GamePad::TL2")
      [] key = "KeyI"        -> Some("DPad::Up")
      [] key = "KeyJ"        -> Some("DPad::Left")
      [] key = "KeyK"        -> Some("DPad::Down")
      [] key = "KeyL"        -> Some("DPad::Right")
      [] key = "KeyV"        -> Some("DPad::Up")
      [] key = "KeyR"        -> Some("DPad::Left")
      [] key = "KeyT"        -> Some("DPad::Down")
      [] key = "KeyF"        -> Some("DPad::Right")
      [] OTHER               -> None

mouse_button_to_controller_event(button) ==
    CASE button = 1 -> Some("GamePad::X")
      [] button = 3 -> Some("GamePad::TR2")
      [] OTHER      -> None

key_to_position(key) ==
    CASE key = "KeyW" -> Some(<<"Y", -127>>)
      [] key = "KeyA" -> Some(<<"X", -127>>)
      [] key = "KeyS" -> Some(<<"Y", 128>>)
      [] key = "KeyD" -> Some(<<"X", 128>>)
      [] OTHER        -> None

Positions == {"X", "Y", "RX", "RY"}
Controllers ==
    {"GamePad::B", "GamePad::Y", "GamePad::A", "GamePad::Start", "GamePad::Select",
     "GamePad::TL", "GamePad::TR", "GamePad::ThumbL", "GamePad::ThumbR",
     "GamePad::TL2", "GamePad::X", "GamePad::TR2",
     "DPad::Up", "DPad::Left", "DPad::Down", "DPad::Right"}

\* uinput::Event built by Absolute::Position(p) / a Controller element
AbsoluteEvent(p) == [kind |-> "Absolute", code |-> p]
ControllerEvent(c) == [kind |-> "Controller", code |-> c]
NoEvent == [kind |-> "None", code |-> "None"]

\* ------------------------------------------------------------------ state
VARIABLES
    loop,          \* event loop of main(): "init", "running", "exiting" (exit()
                   \* was called, the current batch is still being drained),
                   \* "exited" (run_app returned), "panicked"
    state,         \* App.state: "None" or "Some"
    device,        \* AppState.device as its consumer sees it: [axis, key]
    xbanish_proc,  \* AppState.xbanish_proc: Option of the child's pid
    running,       \* pids of the helper processes that are alive
    control_flow,  \* ControlFlow: None = Wait, Some(t) = WaitUntil(t)
    now,           \* clock (ms)
    held,          \* the mapped keys (HeldKeys) that are physically down
    last,          \* the callback that ran last and the event it was given
    calls,         \* Virtual Controller Sink calls made by that callback
    procOps,       \* helper process operations made by that callback
    delivered,     \* number of device events delivered so far
    faults,        \* number of calls that have returned Err so far
    shaper         \* the Motion Shaper called on its own: its arguments and,
                   \* once it has run, its result

vars == <<loop, state, device, xbanish_proc, running, control_flow, now, held,
          last, calls, procOps, delivered, faults, shaper>>

\* --------------------------------------------------------------- the sink
\* A sink value threads the device and the calls made so far through a handler.
Sink(dev, cs) == [axis |-> dev.axis, key |-> dev.key, calls |-> cs]

WriteCall(event, value, ok) ==
    [call |-> "write", event |-> event, value |-> value, ok |-> ok]
SyncCall(ok) ==
    [call |-> "synchronize", event |-> NoEvent, value |-> 0, ok |-> ok]

\* faulty variant: send that returns as soon as device.send fails
send_return_on_error(s, event, value, r) ==
    IF ~r.send
    THEN [s EXCEPT !.calls = s.calls \o <<WriteCall(event, value, FALSE)>>]
    ELSE [(IF event.kind = "Absolute"
           THEN [s EXCEPT !.axis[event.code] = value]
           ELSE [s EXCEPT !.key[event.code] = value])
          EXCEPT !.calls = s.calls \o <<WriteCall(event, value, TRUE), SyncCall(r.sync)>>]

\* AppState::send: device.send then device.synchronize; an Err of either is
\* printed and ignored.  A failed write leaves the device's element as it was.
send(s, event, value, r) ==
    LET written ==
            IF ~r.send THEN s
            ELSE IF event.kind = "Absolute"
                 THEN [s EXCEPT !.axis[event.code] = value]
                 ELSE [s EXCEPT !.key[event.code] = value]
    IN  [written EXCEPT
            !.calls = s.calls \o <<WriteCall(event, value, r.send), SyncCall(r.sync)>>]

\* faulty variant: do_key that, on release, falls back to the other key of the axis
\* when that key is still held
do_key_other_held(s, key, pressed, r) ==
    IF key_to_position(key) # None
    THEN LET pv == unwrap(key_to_position(key))
             others == {k \in held \ {key} : key_to_position(k) # None
                           /\ unwrap(key_to_position(k))[1] = pv[1]}
         IN  send(s, AbsoluteEvent(pv[1]),
                  IF pressed THEN pv[2]
                  ELSE IF others # {}
                       THEN unwrap(key_to_position(CHOOSE k \in others : TRUE))[2]
                       ELSE 0,
                  r)
    ELSE IF key_to_controller_event(key) # None
    THEN send(s, ControllerEvent(unwrap(key_to_controller_event(key))),
              IF pressed THEN 1 ELSE 0, r)
    ELSE s

\* faulty variant: do_key that sends a key found in no table to a default button
do_key_unmapped_writes(s, key, pressed, r) ==
    IF key_to_position(key) # None
    THEN LET pv == unwrap(key_to_position(key))
         IN  send(s, AbsoluteEvent(pv[1]), IF pressed THEN pv[2] ELSE 0, r)
    ELSE IF key_to_controller_event(key) # None
    THEN send(s, ControllerEvent(unwrap(key_to_controller_event(key))),
              IF pressed THEN 1 ELSE 0, r)
    ELSE send(s, ControllerEvent("GamePad::B"), IF pressed THEN 1 ELSE 0, r)

do_key(s, key, pressed, r) ==
    IF key_to_position(key) # None
    THEN LET pv == unwrap(key_to_position(key))
         IN  send(s, AbsoluteEvent(pv[1]), IF pressed THEN pv[2] ELSE 0, r)
    ELSE IF key_to_controller_event(key) # None
    THEN send(s, ControllerEvent(unwrap(key_to_controller_event(key))),
              IF pressed THEN 1 ELSE 0, r)
    ELSE s

\* faulty variant: do_mouse_button that writes 1 on release as on press
do_mouse_button_level(s, button, pressed, r) ==
    IF mouse_button_to_controller_event(button) # None
    THEN send(s, ControllerEvent(unwrap(mouse_button_to_controller_event(button))), 1, r)
    ELSE s

do_mouse_button(s, button, pressed, r) ==
    IF mouse_button_to_controller_event(button) # None
    THEN send(s, ControllerEvent(unwrap(mouse_button_to_controller_event(button))),
              IF pressed THEN 1 ELSE 0, r)
    ELSE s

\* ---------------------------------------------------------- Motion shaper
Abs(n) == IF n < 0 THEN -n ELSE n

\* floor(sqrt(n)) by bisection: lo * lo <= n < hi * hi
RECURSIVE isqrt_between(_, _, _)
isqrt_between(n, lo, hi) ==
    IF hi - lo <= 1 THEN lo
    ELSE LET mid == (lo + hi) \div 2
         IN  IF mid * mid <= n THEN isqrt_between(n, mid, hi)
                               ELSE isqrt_between(n, lo, mid)
\* floor(sqrt(n)), 0 <= n < 46340 * 46340 (the squares an i32 holds)
isqrt(n) == isqrt_between(n, 0, IF n < 46340 THEN n + 1 ELSE 46340)

\* map_range as the exact fraction <<numerator, denominator>>:
\* (x - in_min) * (out_max - out_min) / (in_max - in_min) + out_min
map_range(x, in_min, in_max, out_min, out_max) ==
    <<(x - in_min) * (out_max - out_min) + out_min * (in_max - in_min),
      in_max - in_min>>

\* q * 1.5
times_1_5(q) == <<q[1] * 3, q[2] * 2>>

\* `f as i32`: truncation toward zero, saturating at the i32 range
as_i32(n) ==
    IF n > I32Max THEN I32Max ELSE IF n < -I32Max - 1 THEN -I32Max - 1 ELSE n

\* faulty variant: the compression is left out, (q as i32)
signed_as_i32(q) ==
    LET mag == Abs(q[1]) \div q[2]
    IN  as_i32(IF q[1] < 0 THEN -mag ELSE mag)

\* (q.signum() * q.abs().sqrt()) as i32
signed_sqrt_as_i32(q) ==
    LET mag == isqrt(Abs(q[1]) \div q[2])
    IN  as_i32(IF q[1] < 0 THEN -mag ELSE mag)

\* 10. / MOUSE_SENSITIVITY, in thousandths
range == (10 * 1000) \div MOUSE_SENSITIVITY

stick_x(delta) ==
    signed_sqrt_as_i32(map_range(delta[1], -range, range, AxisMin, AxisMax))
stick_y(delta) ==
    signed_sqrt_as_i32(times_1_5(map_range(delta[2], -range, range, AxisMin, AxisMax)))

do_mouse_move(s, delta, r1, r2) ==
    send(send(s, AbsoluteEvent("RX"), stick_x(delta), r1),
         AbsoluteEvent("RY"), stick_y(delta), r2)

\* faulty variant: do_recenter that zeroes only the first of the two axes
do_recenter_first(s, pos1, pos2, r1, r2) ==
    send(s, AbsoluteEvent(pos1), 0, r1)

do_recenter(s, pos1, pos2, r1, r2) ==
    send(send(s, AbsoluteEvent(pos1), 0, r1), AbsoluteEvent(pos2), 0, r2)

\* ------------------------------------------------ Cursor-visibility helper
\* Outcome of the process primitives one hide_mouse call may use
ProcResults == [spawn : BOOLEAN, kill : BOOLEAN, wait : BOOLEAN]
ProcOk == [spawn |-> TRUE, kill |-> TRUE, wait |-> TRUE]
\* the outcomes that differ for a hide_mouse(hide) call on handle xb
ProcChoices(hide, xb) ==
    IF hide THEN {ProcOk, [ProcOk EXCEPT !.spawn = FALSE]}
    ELSE IF xb = None THEN {ProcOk}
    ELSE {ProcOk, [ProcOk EXCEPT !.kill = FALSE], [ProcOk EXCEPT !.wait = FALSE]}
\* the outcomes that differ for a handler that makes a send only if sends
SendChoices(sends) == IF sends THEN SendResults ELSE {AllOk}

\* a process operation, made after the callback had made `after` sink calls
ProcOpAfter(after, op, pid, ok) == [op |-> op, pid |-> pid, ok |-> ok, after |-> after]
\* a process operation of a callback that had made no sink call
ProcOp(op, pid, ok) == ProcOpAfter(0, op, pid, ok)

\* pid the OS gives the next child: the smallest one not in use
fresh_pid(run) ==
    CHOOSE p \in 1..(Cardinality(run) + 1) :
        p \notin run /\ \A q \in 1..(p - 1) : q \in run

\* The helper side of a handler: the tracked handle, the live helpers, the
\* operations made so far, whether an unwrap() has panicked, and the number
\* of sink calls the handler made before it turned to the helper.
Helper(xb, run) ==
    [xbanish_proc |-> xb, running |-> run, ops |-> <<>>, panicked |-> FALSE, sunk |-> 0]

\* faulty variant: hide_mouse(true) that unwraps the result of spawn
hide_mouse_spawn_unwrap(h, r) ==
    IF r.spawn
    THEN LET pid == fresh_pid(h.running)
         IN  [h EXCEPT !.xbanish_proc = Some(pid),
                       !.running = h.running \cup {pid},
                       !.ops = h.ops \o <<ProcOpAfter(h.sunk, "spawn", pid, TRUE)>>]
    ELSE [h EXCEPT !.xbanish_proc = None,
                   !.ops = h.ops \o <<ProcOpAfter(h.sunk, "spawn", 0, FALSE)>>,
                   !.panicked = TRUE]

\* faulty variant: hide_mouse(true) that stores a handle though spawn failed
hide_mouse_spawn_stale(h, r) ==
    LET pid == fresh_pid(h.running)
    IN  IF r.spawn
        THEN [h EXCEPT !.xbanish_proc = Some(pid),
                       !.running = h.running \cup {pid},
                       !.ops = h.ops \o <<ProcOpAfter(h.sunk, "spawn", pid, TRUE)>>]
        ELSE [h EXCEPT !.xbanish_proc = Some(pid),
                       !.ops = h.ops \o <<ProcOpAfter(h.sunk, "spawn", 0, FALSE)>>]

\* hide_mouse(true): spawn and store the result, whatever was stored before
\* (a Child that is dropped keeps running).
hide_mouse_spawn(h, r) ==
    IF r.spawn
    THEN LET pid == fresh_pid(h.running)
         IN  [h EXCEPT !.xbanish_proc = Some(pid),
                       !.running = h.running \cup {pid},
                       !.ops = h.ops \o <<ProcOpAfter(h.sunk, "spawn", pid, TRUE)>>]
    ELSE [h EXCEPT !.xbanish_proc = None,
                   !.ops = h.ops \o <<ProcOpAfter(h.sunk, "spawn", 0, FALSE)>>]

\* faulty variant: hide_mouse(false) that borrows the handle instead of take()
hide_mouse_kill_keep(h, r) ==
    IF h.xbanish_proc = None THEN h
    ELSE LET pid == unwrap(h.xbanish_proc)
         IN  IF ~r.kill
             THEN [h EXCEPT !.ops = h.ops \o <<ProcOpAfter(h.sunk, "kill", pid, FALSE)>>,
                            !.panicked = TRUE]
             ELSE IF ~r.wait
             THEN [h EXCEPT !.running = h.running \ {pid},
                            !.ops = h.ops \o <<ProcOpAfter(h.sunk, "kill", pid, TRUE),
                                               ProcOpAfter(h.sunk, "wait", pid, FALSE)>>,
                            !.panicked = TRUE]
             ELSE [h EXCEPT !.running = h.running \ {pid},
                            !.ops = h.ops \o <<ProcOpAfter(h.sunk, "kill", pid, TRUE),
                                               ProcOpAfter(h.sunk, "wait", pid, TRUE)>>]

\* hide_mouse(false): take() the handle; kill().unwrap(); wait().unwrap()
hide_mouse_kill(h, r) ==
    IF h.xbanish_proc = None THEN h
    ELSE LET pid == unwrap(h.xbanish_proc)
             taken == [h EXCEPT !.xbanish_proc = None]
         IN  IF ~r.kill
             THEN [taken EXCEPT !.ops = h.ops \o <<ProcOpAfter(h.sunk, "kill", pid, FALSE)>>,
                                !.panicked = TRUE]
             ELSE IF ~r.wait
             THEN [taken EXCEPT !.running = h.running \ {pid},
                                !.ops = h.ops \o <<ProcOpAfter(h.sunk, "kill", pid, TRUE),
                                                   ProcOpAfter(h.sunk, "wait", pid, FALSE)>>,
                                !.panicked = TRUE]
             ELSE [taken EXCEPT !.running = h.running \ {pid},
                                !.ops = h.ops \o <<ProcOpAfter(h.sunk, "kill", pid, TRUE),
                                                   ProcOpAfter(h.sunk, "wait", pid, TRUE)>>]

hide_mouse(h, hide, r) ==
    IF hide THEN hide_mouse_spawn(h, r) ELSE hide_mouse_kill(h, r)

\* faulty variant: the toggle key always asks to hide
toggle_hide_always(xb) == TRUE

\* the argument device_event gives hide_mouse for the toggle key
toggle_hide(xb) == xb = None

\* ------------------------------------------------------------ events
Callback(handler, kind, key, button, pressed, delta) ==
    [handler |-> handler, kind |-> kind, key |-> key, button |-> button,
     pressed |-> pressed, delta |-> delta]
NoCallback == Callback("none", "None", "", 0, FALSE, <<0, 0>>)
KeyEvent(key, pressed) == Callback("device_event", "Key", key, 0, pressed, <<0, 0>>)
ButtonEvent(button, pressed) ==
    Callback("device_event", "Button", "", button, pressed, <<0, 0>>)
MotionEvent(delta) == Callback("device_event", "MouseMotion", "", 0, FALSE, delta)
OtherEvent == Callback("device_event", "Other", "", 0, FALSE, <<0, 0>>)
StartCause(cause) == Callback("new_events", cause, "", 0, FALSE, <<0, 0>>)
ResumedEvent == Callback("resumed", "Resumed", "", 0, FALSE, <<0, 0>>)
\* a direct call hide_mouse(hide)
HideCall(hide) == Callback("hide_mouse", "Call", "", 0, hide, <<0, 0>>)

\* the arguments of a call of the Motion Shaper that has not run yet
ShaperArgs(delta, sensitivity) ==
    [delta |-> delta, sensitivity |-> sensitivity, out |-> None]

ZeroDevice == [axis |-> [p \in Positions |-> 0], key |-> [c \in Controllers |-> 0]]

Init ==
    /\ loop = "init"
    /\ state = "None"
    /\ device = ZeroDevice
    /\ xbanish_proc = None
    /\ running = {}
    /\ control_flow = None
    /\ now = 0
    /\ held = {}
    /\ last = NoCallback
    /\ calls = <<>>
    /\ procOps = <<>>
    /\ delivered = 0
    /\ faults = 0
    /\ shaper = ShaperArgs(<<0, 0>>, MOUSE_SENSITIVITY)

\* n more calls return Err
Fault(n) == faults + n <= MaxFaults /\ faults' = faults + n

\* what every callback that ran to its end leaves behind
Ran(cb, s, h) ==
    /\ last' = cb
    /\ device' = [axis |-> s.axis, key |-> s.key]
    /\ calls' = s.calls
    /\ xbanish_proc' = h.xbanish_proc
    /\ running' = h.running
    /\ procOps' = h.ops

\* faulty variant: resumed that goes on when AppState::new() has failed
resumed_unchecked ==
    /\ loop = "init"
    /\ \E created \in BOOLEAN, r1, r2, r3, r4 \in SendResults,
          pr \in ProcChoices(TRUE, None) :
        /\ Fault(Errs(r1) + Errs(r2) + Errs(r3) + Errs(r4) + Errs(pr)
                 + IF created THEN 0 ELSE 1)
        /\ created \/ (r1 = AllOk /\ r2 = AllOk /\ r3 = AllOk /\ r4 = AllOk /\ pr = ProcOk)
        /\ LET s0 == Sink(ZeroDevice, <<>>)
               s1 == do_recenter(s0, "X", "Y", r1, r2)
               s2 == do_recenter(s1, "RX", "RY", r3, r4)
               h  == hide_mouse([Helper(None, running) EXCEPT !.sunk = Len(s2.calls)],
                                TRUE, pr)
           IN  /\ Ran(ResumedEvent, s2, h)
               /\ state' = "Some"
               /\ loop' = "running"
    /\ UNCHANGED <<control_flow, now, held, delivered, shaper>>

\* App::resumed.  AppState::new() failing panics in expect().
resumed ==
    /\ loop = "init"
    /\ \E created \in BOOLEAN, r1, r2, r3, r4 \in SendResults,
          pr \in ProcChoices(TRUE, None) :
        /\ Fault(Errs(r1) + Errs(r2) + Errs(r3) + Errs(r4) + Errs(pr)
                 + IF created THEN 0 ELSE 1)
        /\ created \/ (r1 = AllOk /\ r2 = AllOk /\ r3 = AllOk /\ r4 = AllOk /\ pr = ProcOk)
        /\ IF ~created
           THEN /\ loop' = "panicked"
                /\ last' = ResumedEvent
                /\ calls' = <<>>
                /\ procOps' = <<>>
                /\ UNCHANGED <<state, device, xbanish_proc, running>>
           ELSE LET s0 == Sink(ZeroDevice, <<>>)
                    s1 == do_recenter(s0, "X", "Y", r1, r2)
                    s2 == do_recenter(s1, "RX", "RY", r3, r4)
                    h  == hide_mouse([Helper(None, running) EXCEPT !.sunk = Len(s2.calls)],
                                     TRUE, pr)
                IN  /\ Ran(ResumedEvent, s2, h)
                    /\ state' = "Some"
                    /\ loop' = "running"
    /\ UNCHANGED <<control_flow, now, held, delivered, shaper>>

\* The event loop calls new_events and device_event while it runs; after
\* event_loop.exit() it still drains the events of the batch at hand
\* (device_event only), then run_app returns.
Delivering == loop \in {"running", "exiting"} /\ delivered < MaxEvents

\* the cause winit gives new_events
cause_possible(cause) ==
    CASE cause = "Init" -> loop = "init"
      [] cause = "WaitCancelled" -> loop = "running"
      [] cause = "ResumeTimeReached" ->
            loop = "running" /\ control_flow # None /\ now >= unwrap(control_flow)

\* App::new_events
new_events ==
    /\ \E cause \in {"Init", "WaitCancelled", "ResumeTimeReached"} :
       \E r1, r2 \in SendChoices(state = "Some" /\ cause = "ResumeTimeReached") :
        /\ cause_possible(cause)
        /\ Fault(Errs(r1) + Errs(r2))
        /\ IF state = "None"
           THEN /\ last' = StartCause(cause)
                /\ calls' = <<>>
                /\ procOps' = <<>>
                /\ UNCHANGED <<device, xbanish_proc, running, control_flow>>
           ELSE IF cause = "ResumeTimeReached"
           THEN /\ Ran(StartCause(cause),
                       do_recenter(Sink(device, <<>>), "RX", "RY", r1, r2),
                       Helper(xbanish_proc, running))
                /\ control_flow' = None
           ELSE /\ Ran(StartCause(cause), Sink(device, <<>>),
                       Helper(xbanish_proc, running))
                /\ UNCHANGED control_flow
    /\ UNCHANGED <<loop, state, now, held, delivered, shaper>>

\* faulty variant: a pending deadline is kept instead of being replaced
wait_duration_keep(t) ==
    IF control_flow = None THEN Some(t + RecenterMillis) ELSE control_flow

\* ControlFlow::wait_duration(Duration::from_millis(20)) called at time t:
\* WaitUntil(t + 20 ms)
wait_duration(t) == Some(t + RecenterMillis)

\* App::device_event, DeviceEvent::MouseMotion
device_event_motion ==
    /\ Delivering
    /\ state = "Some"
    /\ \E delta \in Deltas, r1, r2 \in SendResults :
        /\ Fault(Errs(r1) + Errs(r2))
        /\ Ran(MotionEvent(delta),
               do_mouse_move(Sink(device, <<>>), delta, r1, r2),
               Helper(xbanish_proc, running))
        /\ control_flow' = wait_duration(now)
    /\ delivered' = delivered + 1
    /\ UNCHANGED <<loop, state, now, held, shaper>>

\* faulty variant: a button event that sets the deadline as a motion does
device_event_button_rearm ==
    /\ Delivering
    /\ state = "Some"
    /\ \E button \in Buttons, pressed \in BOOLEAN :
       \E r \in SendChoices(mouse_button_to_controller_event(button) # None) :
        /\ Fault(Errs(r))
        /\ Ran(ButtonEvent(button, pressed),
               do_mouse_button(Sink(device, <<>>), button, pressed, r),
               Helper(xbanish_proc, running))
        /\ control_flow' = wait_duration(now)
    /\ delivered' = delivered + 1
    /\ UNCHANGED <<loop, state, now, held, shaper>>

\* App::device_event, DeviceEvent::Button
device_event_button ==
    /\ Delivering
    /\ state = "Some"
    /\ \E button \in Buttons, pressed \in BOOLEAN :
       \E r \in SendChoices(mouse_button_to_controller_event(button) # None) :
        /\ Fault(Errs(r))
        /\ Ran(ButtonEvent(button, pressed),
               do_mouse_button(Sink(device, <<>>), button, pressed, r),
               Helper(xbanish_proc, running))
    /\ delivered' = delivered + 1
    /\ UNCHANGED <<loop, state, control_flow, now, held, shaper>>

\* faulty variant: the toggle key acts on release as on press
key_helper_on_release(key, pressed, pr) ==
    LET h == Helper(xbanish_proc, running)
    IN  CASE key = "Delete" -> hide_mouse(h, FALSE, pr)
          [] key = "Backslash" -> hide_mouse(h, toggle_hide(xbanish_proc), pr)
          [] OTHER -> h

\* the helper side of a key event and whether event_loop.exit() is reached
key_helper(key, pressed, pr) ==
    LET h == Helper(xbanish_proc, running)
    IN  CASE key = "Delete" -> hide_mouse(h, FALSE, pr)
          [] key = "Backslash" ->
                IF pressed THEN hide_mouse(h, toggle_hide(xbanish_proc), pr) ELSE h
          [] OTHER -> h

\* the process outcomes that differ for a key event
key_proc_choices(key, pressed) ==
    CASE key = "Delete" -> ProcChoices(FALSE, xbanish_proc)
      [] key = "Backslash" /\ pressed ->
            ProcChoices(toggle_hide(xbanish_proc), xbanish_proc)
      [] OTHER -> {ProcOk}

\* the sink side of a key event
key_sink(key, pressed, r) ==
    IF key \in {"Delete", "Backslash"}
    THEN Sink(device, <<>>)
    ELSE do_key(Sink(device, <<>>), key, pressed, r)

\* faulty variant: Delete un-hides the cursor but does not ask the loop to exit
key_loop_no_exit(key, h) == IF h.panicked THEN "panicked" ELSE loop

\* the loop after a key event: a panic ends the process, Delete asks to exit
key_loop(key, h) ==
    IF h.panicked THEN "panicked"
    ELSE IF key = "Delete" THEN "exiting"
    ELSE loop

\* App::device_event, DeviceEvent::Key with PhysicalKey::Code(key)
device_event_key ==
    /\ Delivering
    /\ state = "Some"
    /\ \E key \in Keys, pressed \in BOOLEAN :
       \E r \in SendChoices(key_sink(key, pressed, AllOk).calls # <<>>),
          pr \in key_proc_choices(key, pressed) :
        LET h == key_helper(key, pressed, pr)
        IN  /\ Fault(Errs(r) + Errs(pr))
            /\ Ran(KeyEvent(key, pressed), key_sink(key, pressed, r), h)
            /\ loop' = key_loop(key, h)
            /\ held' = IF key \notin HeldKeys THEN held
                       ELSE IF pressed THEN held \cup {key} ELSE held \ {key}
    /\ delivered' = delivered + 1
    /\ UNCHANGED <<state, control_flow, now, shaper>>

\* App::device_event, any other DeviceEvent (and keys without a KeyCode)
device_event_other ==
    /\ Delivering
    /\ state = "Some"
    /\ Ran(OtherEvent, Sink(device, <<>>), Helper(xbanish_proc, running))
    /\ delivered' = delivered + 1
    /\ UNCHANGED <<loop, state, control_flow, now, held, faults, shaper>>

\* Time passes.  A running loop that waits until a deadline wakes up at the
\* deadline, so the clock does not pass it before new_events has run.
tick ==
    /\ loop = "running"
    /\ now + (RecenterMillis \div 2) <= MaxTime
    /\ control_flow # None => now < unwrap(control_flow)
    /\ now' = now + (RecenterMillis \div 2)
    /\ UNCHANGED <<loop, state, device, xbanish_proc, running, control_flow, held,
                   last, calls, procOps, delivered, faults, shaper>>

\* run_app returns once the batch is drained; main() ends and drops the App
\* (a dropped Child is not killed).
run_app_returns ==
    /\ loop = "exiting"
    /\ loop' = "exited"
    /\ UNCHANGED <<state, device, xbanish_proc, running, control_flow, now, held,
                   last, calls, procOps, delivered, faults, shaper>>

Next ==
    \/ resumed
    \/ new_events
    \/ device_event_motion
    \/ device_event_button
    \/ device_event_key
    \/ device_event_other
    \/ tick
    \/ run_app_returns

Spec == Init /\ [][Next]_vars

\* ------------------------------------------- hide_mouse called on its own
\* AppState::hide_mouse called directly on the session's AppState with any
\* argument, whatever handle is tracked (the contract of the
\* Cursor-Visibility Controller, without the checks of its callers).
hide_mouse_call ==
    /\ Delivering
    /\ state = "Some"
    /\ \E hide \in BOOLEAN :
       \E pr \in ProcChoices(hide, xbanish_proc) :
        LET h == hide_mouse(Helper(xbanish_proc, running), hide, pr)
        IN  /\ hide => Cardinality(running) < MaxHelpers
            /\ Fault(Errs(pr))
            /\ Ran(HideCall(hide), Sink(device, <<>>), h)
            /\ loop' = IF h.panicked THEN "panicked" ELSE loop
    /\ delivered' = delivered + 1
    /\ UNCHANGED <<state, control_flow, now, held, shaper>>

\* the session, with hide_mouse also called directly
NextHide == Next \/ hide_mouse_call
SpecHide == Init /\ [][NextHide]_vars

\* ------------------------------------------ the Motion Shaper on its own
\* The sensitivities the shaper is called with; the program's is 250.
Sensitivities == {100, MOUSE_SENSITIVITY, 1000}
\* The deltas (thousandths) the shaper is called with, in each direction.
ShapeDeltas == (-MaxShapeDelta)..MaxShapeDelta

\* The shaping of do_mouse_move with MOUSE_SENSITIVITY as a parameter: the pair
\* (stick_x as i32, stick_y as i32).  map_range depends on x, in_min and in_max
\* only through their ratios, so delta (thousandths) and range = 10 / sensitivity
\* are both multiplied by 1000 * sensitivity to stay in the integers.
shape(delta, sensitivity) ==
    LET r == 10 * 1000
        x == map_range(delta[1] * sensitivity, -r, r, AxisMin, AxisMax)
        y == times_1_5(map_range(delta[2] * sensitivity, -r, r, AxisMin, AxisMax))
    IN  <<signed_sqrt_as_i32(x), signed_sqrt_as_i32(y)>>

\* the delta lies within the calibrated range [-10/sensitivity, 10/sensitivity]
InCalibratedRange(delta, sensitivity) ==
    /\ Abs(delta[1] * sensitivity) <= 10 * 1000
    /\ Abs(delta[2] * sensitivity) <= 10 * 1000

InitShape ==
    /\ loop = "init"
    /\ state = "None"
    /\ device = ZeroDevice
    /\ xbanish_proc = None
    /\ running = {}
    /\ control_flow = None
    /\ now = 0
    /\ held = {}
    /\ last = NoCallback
    /\ calls = <<>>
    /\ procOps = <<>>
    /\ delivered = 0
    /\ faults = 0
    /\ \E dx, dy \in ShapeDeltas, s \in Sensitivities : shaper = ShaperArgs(<<dx, dy>>, s)

\* the shaper is applied to its arguments
shape_call ==
    /\ shaper.out = None
    /\ shaper' = [shaper EXCEPT !.out = Some(shape(shaper.delta, shaper.sensitivity))]
    /\ UNCHANGED <<loop, state, device, xbanish_proc, running, control_flow, now, held,
                   last, calls, procOps, delivered, faults>>

NextShape == shape_call
SpecShape == InitShape /\ [][NextShape]_vars

\* --------------------------------------------------------- session states
Uninitialized == loop = "init"
Active == loop = "running" /\ state = "Some"
Terminated == loop \in {"exiting", "exited"}

\* Recenter timer states
Idle == control_flow = None
Armed == control_flow # None

\* calls is exactly one zeroing pair: right-stick X := 0, right-stick Y := 0
ZeroingPair(cs) ==
    /\ Len(cs) = 4
    /\ cs[1].call = "write" /\ cs[1].event = AbsoluteEvent("RX") /\ cs[1].value = 0
    /\ cs[2].call = "synchronize"
    /\ cs[3].call = "write" /\ cs[3].event = AbsoluteEvent("RY") /\ cs[3].value = 0
    /\ cs[4].call = "synchronize"

\* the step delivers a device event to device_event
DeviceEventStep == delivered' = delivered + 1 /\ last'.handler = "device_event"

\* the step is the timer's wake-up, new_events(ResumeTimeReached): a callback
\* other than device_event has run (the clock and the loop stand still)
TimerStep ==
    /\ last' = StartCause("ResumeTimeReached")
    /\ delivered' = delivered /\ now' = now /\ loop' = loop

\* the step delivers a mouse motion
MotionStep == DeviceEventStep /\ last'.kind = "MouseMotion"

\* the step delivers an event of the given key
KeyStep(key) == DeviceEventStep /\ last'.kind = "Key" /\ last'.key = key

\* ------------------------------------------------------------------ claims

\* C1: while Active, the timer's wake-up happens only when Armed and at the
\* deadline, which the clock does not pass before the wake-up; it issues
\* exactly one zeroing pair and leaves the timer Idle.  A motion event sets the
\* deadline to now + 20 ms whatever the timer was, so a motion before expiry
\* issues only its own two writes (no zeroing) and moves the deadline later.
C1_RecenterTimer ==
    [][ /\ (Active /\ Armed /\ now' > now) => now' <= unwrap(control_flow)
        /\ (Active /\ TimerStep) =>
              /\ Armed
              /\ now = unwrap(control_flow)
              /\ ZeroingPair(calls')
              /\ Idle'
        /\ (Active /\ MotionStep) =>
              /\ control_flow' = Some(now + 20)
              /\ Armed => unwrap(control_flow') >= unwrap(control_flow)
              /\ Len(calls') = 4
              /\ last'.handler = "device_event"
      ]_vars

\* C1 witness: the timer has fired at t = 30 ms, after a deadline that a motion
\* at t = 10 ms set; the zeroing pair was issued and the timer is Idle.
C1_Witness ==
    /\ Active
    /\ last = StartCause("ResumeTimeReached")
    /\ ZeroingPair(calls)
    /\ Idle
    /\ now = 30
    /\ delivered = 2

\* C2 (as claimed): every value written to an absolute axis lies in [-127, 128].
C2_AxisWritesInRange ==
    \A i \in 1..Len(calls) :
        (calls[i].call = "write" /\ calls[i].event.kind = "Absolute")
            => (calls[i].value >= -127 /\ calls[i].value <= 128)

\* C3: within the calls of every callback (and so in their concatenation, the
\* whole trace) writes and synchronizations alternate, starting with a write
\* and ending with a synchronization, whether or not the write succeeded.
C3_WriteThenSync ==
    /\ Len(calls) % 2 = 0
    /\ \A i \in 1..Len(calls) :
        calls[i].call = (IF i % 2 = 1 THEN "write" ELSE "synchronize")

\* C3 witness: a write that failed is followed by its synchronization.
C3_Witness ==
    \E i \in 1..Len(calls) :
        /\ calls[i].call = "write"
        /\ ~calls[i].ok
        /\ i < Len(calls)
        /\ calls[i + 1].call = "synchronize"

\* C4: at most one helper process spawned by the session is running.
C4_AtMostOneHelper == Cardinality(running) <= 1

\* C4 witness: the toggle key has spawned a helper as the second device event
\* of a run (after an exit or a toggle-off), and it is the only one running.
C4_Witness ==
    /\ last = KeyEvent("Backslash", TRUE)
    /\ delivered = 2
    /\ Len(procOps) = 1 /\ procOps[1].op = "spawn" /\ procOps[1].ok
    /\ running = xbanish_proc
    /\ Cardinality(running) = 1

\* C5 (as claimed): hide_mouse(true) with a helper tracked spawns nothing and
\* keeps the tracked handle.
C5_SetHiddenTrueIdempotent ==
    [][ (delivered' = delivered + 1 /\ last' = HideCall(TRUE) /\ xbanish_proc # None) =>
            (procOps' = <<>> /\ running' = running /\ xbanish_proc' = xbanish_proc)
      ]_vars

\* the step calls hide_mouse(false): the exit key, or a press of the toggle
\* key while a helper is tracked
HideFalseStep ==
    \/ KeyStep("Delete")
    \/ KeyStep("Backslash") /\ last'.pressed /\ xbanish_proc # None

\* hide_mouse(false) found no handle: nothing is done and nothing changes
HideFalseNoOp ==
    /\ procOps' = <<>>
    /\ calls' = <<>>
    /\ xbanish_proc' = None
    /\ running' = running
    /\ device' = device
    /\ control_flow' = control_flow
    /\ loop' # "panicked"

\* hide_mouse(false) killed and reaped the tracked helper and cleared the handle
HideFalseKilled ==
    /\ procOps' = <<ProcOp("kill", unwrap(xbanish_proc), TRUE),
                    ProcOp("wait", unwrap(xbanish_proc), TRUE)>>
    /\ xbanish_proc' = None
    /\ unwrap(xbanish_proc) \notin running'
    /\ loop' # "panicked"

\* hide_mouse(false) cleared the handle and panicked in kill().unwrap() (the
\* helper is not killed, not waited on) or in wait().unwrap()
HideFalsePanicked ==
    /\ xbanish_proc' = None
    /\ loop' = "panicked"
    /\ \/ /\ procOps' = <<ProcOp("kill", unwrap(xbanish_proc), FALSE)>>
          /\ running' = running
       \/ /\ procOps' = <<ProcOp("kill", unwrap(xbanish_proc), TRUE),
                          ProcOp("wait", unwrap(xbanish_proc), FALSE)>>
          /\ unwrap(xbanish_proc) \notin running'

\* C6 (as claimed): hide_mouse(false) is a no-op with no tracked helper, and
\* with one it kills it, waits on it and clears the handle.
C6_SetHiddenFalse_Claimed ==
    [][ HideFalseStep =>
            IF xbanish_proc = None THEN HideFalseNoOp ELSE HideFalseKilled ]_vars

\* C6 (amended): hide_mouse(false) is a no-op with no tracked helper; with one
\* it clears the handle and kills and waits on the helper, or panics when the
\* kill or the wait returns an error.
C6_SetHiddenFalse ==
    [][ HideFalseStep =>
            IF xbanish_proc = None THEN HideFalseNoOp
            ELSE HideFalseKilled \/ HideFalsePanicked ]_vars

\* C6 witness: the exit key called hide_mouse(false) with no helper tracked
\* (the spawn at start-up had failed): nothing was killed, nothing written.
C6_Witness ==
    /\ last.kind = "Key" /\ last.key = "Delete"
    /\ delivered = 1
    /\ faults = 1
    /\ procOps = <<>>
    /\ calls = <<>>
    /\ xbanish_proc = None
    /\ running = {}
    /\ loop = "exiting"

\* C7 (as claimed): the exit key delivered while Active takes the session to
\* Terminated, and a Delete event kills and waits on the helper exactly once
\* if one is tracked and not at all otherwise (so not again on a second Delete).
C7_ExitKey_Claimed ==
    [][ KeyStep("Delete") =>
            /\ Active => Terminated'
            /\ IF xbanish_proc = None THEN procOps' = <<>> ELSE HideFalseKilled
            /\ xbanish_proc' = None ]_vars

\* C7 (amended): as claimed, unless the kill or the wait of the tracked helper
\* returns an error: then the process panics and Terminated is not reached.
C7_ExitKey ==
    [][ KeyStep("Delete") =>
            /\ xbanish_proc' = None
            /\ IF xbanish_proc = None
               THEN procOps' = <<>> /\ (Active => Terminated')
               ELSE \/ HideFalseKilled /\ (Active => Terminated')
                    \/ HideFalsePanicked ]_vars

\* C7 witness: the exit key has been handled with a helper tracked: one kill,
\* one wait, no helper left, the loop is exiting.
C7_Witness ==
    /\ last = KeyEvent("Delete", TRUE)
    /\ procOps = <<ProcOp("kill", 1, TRUE), ProcOp("wait", 1, TRUE)>>
    /\ xbanish_proc = None
    /\ running = {}
    /\ Terminated

\* C8 (as claimed): in Terminated no helper process is running.
C8_NoHelperWhenTerminated == Terminated => running = {}

\* C9 (as claimed): from Terminated no step writes to the sink, spawns a
\* helper, changes the recenter deadline or leads back to Active.
C9_TerminatedAbsorbing ==
    [][ Terminated =>
            /\ calls' = <<>>
            /\ running' \subseteq running
            /\ control_flow' = control_flow
            /\ ~Active' ]_vars

\* the callback made exactly one write, of value to the axis, and its
\* synchronization
OneAxisWrite(cs, axis, value) ==
    /\ Len(cs) = 2
    /\ cs[1].call = "write"
    /\ cs[1].event = AbsoluteEvent(axis)
    /\ cs[1].value = value
    /\ cs[2].call = "synchronize"

\* C10: a key event of one of the two keys of a left-stick axis makes exactly
\* one write, to that axis, of the key's extreme (-127 or 128) on press and of
\* 0 on release, whatever other key is held, and the write, when it succeeds,
\* is the value of the axis; no other step after start-up changes the axis, so
\* the axis holds the value written by the most recent event of either key.
C10_AxisKeys ==
    [][ \A axis \in {"X", "Y"} :
          LET low == IF axis = "X" THEN "KeyA" ELSE "KeyW"
              high == IF axis = "X" THEN "KeyD" ELSE "KeyS"
              value == IF ~last'.pressed THEN 0
                       ELSE IF last'.key = low THEN -127 ELSE 128
          IN  IF KeyStep(low) \/ KeyStep(high)
              THEN /\ OneAxisWrite(calls', axis, value)
                   /\ device'.axis[axis] =
                        IF calls'[1].ok THEN value ELSE device.axis[axis]
              ELSE loop # "init" => device'.axis[axis] = device.axis[axis]
      ]_vars

\* C10 witness: KeyA was released while KeyD, bound to the same axis, is held:
\* 0 was written and is the value of the axis.
C10_Witness ==
    /\ last = KeyEvent("KeyA", FALSE)
    /\ "KeyD" \in held
    /\ Len(calls) = 2 /\ calls[1].ok /\ calls[1].value = 0
    /\ device.axis["X"] = 0

\* the step delivers an event of the given mouse button
ButtonStep(button) == DeviceEventStep /\ last'.kind = "Button" /\ last'.button = button

\* the keys and buttons of the alphabets that no mapping table holds; the exit
\* key and the toggle key are among them
UnmappedKeys ==
    {k \in Keys : key_to_position(k) = None /\ key_to_controller_event(k) = None}
UnmappedButtons == {b \in Buttons : mouse_button_to_controller_event(b) = None}

\* C11: an event, press or release, of a key that is in no mapping table
\* (KeyZ; also the exit key and the toggle key) or of a mouse button that is
\* in no mapping table (button 2) makes no sink call and leaves the virtual
\* controller's elements as they were.
C11_UnmappedNoEffect ==
    [][ ( \/ KeyStep("KeyZ") \/ ButtonStep(2)
          \/ \E k \in UnmappedKeys : KeyStep(k)
          \/ \E b \in UnmappedButtons : ButtonStep(b) )
        => (calls' = <<>> /\ device' = device) ]_vars

\* C11 witness: KeyZ was released after a mapped key had moved the left stick:
\* no sink call was made and the stick is where it was.
C11_Witness ==
    /\ last = KeyEvent("KeyZ", FALSE)
    /\ calls = <<>>
    /\ device.axis["X"] = 128
    /\ delivered = 2

\* the callback made exactly one write, of value to the digital element, and
\* its synchronization
OneDigitalWrite(cs, element, value) ==
    /\ Len(cs) = 2
    /\ cs[1].call = "write"
    /\ cs[1].event = ControllerEvent(element)
    /\ cs[1].value = value
    /\ cs[2].call = "synchronize"

\* the keys and the mouse buttons that the tables map to a digital element
DigitalKeys ==
    {"KeyC", "Space", "ShiftLeft", "KeyM", "KeyN", "KeyQ", "KeyE", "KeyX", "KeyG",
     "ControlLeft", "KeyI", "KeyJ", "KeyK", "KeyL", "KeyV", "KeyR", "KeyT", "KeyF"}
DigitalButtons == {1, 3}

\* do_key and do_mouse_button, on a fresh device, make one write of 1 (press)
\* or 0 (release) to the element the table names, and its synchronization
DigitalTablesWriteOnce ==
    /\ \A k \in DigitalKeys, pressed \in BOOLEAN :
          /\ key_to_controller_event(k) # None
          /\ OneDigitalWrite(do_key(Sink(ZeroDevice, <<>>), k, pressed, AllOk).calls,
                             unwrap(key_to_controller_event(k)),
                             IF pressed THEN 1 ELSE 0)
    /\ \A b \in DigitalButtons, pressed \in BOOLEAN :
          /\ mouse_button_to_controller_event(b) # None
          /\ OneDigitalWrite(do_mouse_button(Sink(ZeroDevice, <<>>), b, pressed, AllOk).calls,
                             unwrap(mouse_button_to_controller_event(b)),
                             IF pressed THEN 1 ELSE 0)

\* C12: an event of a key or mouse button mapped to a digital element makes
\* exactly one write, to the mapped element, of 1 on press and of 0 on
\* release, followed by a synchronization, and the write, when it succeeds, is
\* the element's value; so a press followed by a release writes 1 then 0.
\* KeyI and KeyV, both bound to D-pad Up, write to the same element.  The same
\* holds of do_key and do_mouse_button for every key and button of the tables.
C12_DigitalPressRelease ==
    [][ /\ DigitalTablesWriteOnce
        /\ \A k \in {"KeyI", "KeyV"} :
              KeyStep(k) =>
                /\ OneDigitalWrite(calls', "DPad::Up", IF last'.pressed THEN 1 ELSE 0)
                /\ calls'[1].ok =>
                      device'.key["DPad::Up"] = (IF last'.pressed THEN 1 ELSE 0)
        /\ ButtonStep(1) =>
                /\ OneDigitalWrite(calls', "GamePad::X", IF last'.pressed THEN 1 ELSE 0)
                /\ calls'[1].ok =>
                      device'.key["GamePad::X"] = (IF last'.pressed THEN 1 ELSE 0)
      ]_vars

\* C12 witness: KeyI was pressed (D-pad Up became 1) and then its alias KeyV
\* was released: 0 was written to the same element.
C12_Witness ==
    /\ last = KeyEvent("KeyV", FALSE)
    /\ "KeyI" \in held
    /\ delivered = 2
    /\ faults = 0
    /\ calls = <<WriteCall(ControllerEvent("DPad::Up"), 0, TRUE), SyncCall(TRUE)>>
    /\ device.key["DPad::Up"] = 0

\* the value lies in the declared range of an axis
InAxisRange(v) == v >= AxisMin /\ v <= AxisMax

\* C13: the shaper, given a delta whose two components lie within the
\* calibrated range [-10/sensitivity, 10/sensitivity], returns two values
\* within [-127, 128]; given the delta (0, 0) it returns (0, 0), whatever the
\* sensitivity; with the program's sensitivity it returns what do_mouse_move
\* writes.
C13_ShaperBoundAndNeutral ==
    shaper.out # None =>
        LET out == unwrap(shaper.out)
        IN  /\ InCalibratedRange(shaper.delta, shaper.sensitivity) =>
                  (InAxisRange(out[1]) /\ InAxisRange(out[2]))
            /\ shaper.delta = <<0, 0>> => out = <<0, 0>>
            /\ shaper.sensitivity = MOUSE_SENSITIVITY =>
                  out = <<stick_x(shaper.delta), stick_y(shaper.delta)>>

\* C13 witness: the shaper has run on the corner (0.04, -0.04) of the range
\* calibrated for sensitivity 250 and returned (11, -13).
C13_Witness ==
    /\ shaper.delta = <<40, -40>>
    /\ shaper.sensitivity = 250
    /\ shaper.out = Some(<<11, -13>>)

\* x clamped to [lo, hi]
Clamp(x, lo, hi) == IF x < lo THEN lo ELSE IF x > hi THEN hi ELSE x

\* trunc(sign(v) * sqrt(|v|)) of v = map_range(dx, -0.04, 0.04, -127, 128),
\* dx in thousandths
ClaimedStickX(dx) ==
    LET num == (dx + 40) * 255 - 127 * 80
        mag == isqrt(Abs(num) \div 80)
    IN  IF num < 0 THEN -mag ELSE mag

\* C14 (as claimed): a motion event delivered while Active writes to the right
\* stick X the value trunc(sign(v) * sqrt(|v|)), v = map_range(dx, -0.04,
\* 0.04, -127, 128), clamped to [-127, 128], then synchronizes, then writes
\* the right stick Y and synchronizes; for (5, 0) the values are 126 and 0.
C14_MotionWrites_Claimed ==
    [][ (Active /\ MotionStep) =>
            /\ Len(calls') = 4
            /\ calls'[1].call = "write" /\ calls'[1].event = AbsoluteEvent("RX")
            /\ calls'[1].value = Clamp(ClaimedStickX(last'.delta[1]), -127, 128)
            /\ calls'[2].call = "synchronize"
            /\ calls'[3].call = "write" /\ calls'[3].event = AbsoluteEvent("RY")
            /\ calls'[4].call = "synchronize"
            /\ last'.delta = <<5000, 0>> =>
                  (calls'[1].value = 126 /\ calls'[3].value = 0)
      ]_vars

\* number of the calls of a log that returned Err
NotOk(log) == Cardinality({i \in 1..Len(log) : ~log[i].ok})

\* the step is resumed with a failed device creation: one of its calls
\* returned Err that is neither a sink call nor a process operation
CreationFailedStep ==
    /\ loop = "init"
    /\ last' = ResumedEvent
    /\ faults' > faults + NotOk(calls') + NotOk(procOps')

\* the session has stopped in resumed, before a device existed
FailedAtStartup == loop = "panicked" /\ state = "None"

\* C15: when the device cannot be created at resumed, the process panics with
\* no AppState: no sink call was made, no helper spawned, no deadline set, and
\* from then on no callback runs (no step changes anything), so the session
\* is never Active and no input event is translated.
C15_DeviceCreationFailure ==
    [][ /\ CreationFailedStep =>
              /\ FailedAtStartup'
              /\ calls' = <<>> /\ procOps' = <<>>
              /\ device' = device /\ running' = {} /\ xbanish_proc' = None
              /\ Idle'
              /\ delivered' = 0
        /\ ~FailedAtStartup
      ]_vars

\* C15 witness: resumed has run, the device creation failed, the process has
\* panicked with no AppState and nothing done.
C15_Witness ==
    /\ FailedAtStartup
    /\ last = ResumedEvent
    /\ faults = 1
    /\ calls = <<>> /\ procOps = <<>> /\ running = {} /\ Idle

\* the step is a callback in which a call other than the device creation
\* returned Err: a device write, a synchronization, a spawn, a kill or a wait
RuntimeFailureStep == faults' > faults /\ ~CreationFailedStep

\* the log of process operations holds a kill or a wait that returned Err
KillOrWaitFailed(ops) ==
    \E i \in 1..Len(ops) : ops[i].op \in {"kill", "wait"} /\ ~ops[i].ok

\* nothing was attempted twice by the callback: no element was written twice
\* and no process operation made twice
NoRetry(cs, ops) ==
    /\ \A i, j \in 1..Len(cs) :
          (i # j /\ cs[i].call = "write" /\ cs[j].call = "write")
              => cs[i].event # cs[j].event
    /\ \A i, j \in 1..Len(ops) : i # j => ops[i].op # ops[j].op

\* the callback ended normally: the session is where it would be had nothing
\* failed (Active after resumed, otherwise as it was) and events go on
SessionGoesOn ==
    /\ state' = "Some"
    /\ loop' = (IF loop = "init" THEN "running" ELSE loop)
    /\ Active => Active'

\* C16 (as claimed): a failed device write, synchronization, helper spawn or
\* helper kill is attempted once and is not fatal.
C16_RuntimeFailures_Claimed ==
    [][ RuntimeFailureStep => (NoRetry(calls', procOps') /\ SessionGoesOn) ]_vars

\* C16 (amended): a failed device write, synchronization or helper spawn is
\* attempted once and is not fatal: the callback ends normally and the
\* session stays Active.  A failed helper kill or wait is attempted once and
\* is fatal: the process panics.
C16_RuntimeFailures ==
    [][ RuntimeFailureStep =>
            /\ NoRetry(calls', procOps')
            /\ IF KillOrWaitFailed(procOps')
               THEN loop' = "panicked"
               ELSE SessionGoesOn ]_vars

\* C16 witness: the write of the KeyD press failed (the key is held, the left
\* stick X was left at 0), and the motion event delivered next was translated
\* without an error, the session being Active.
C16_Witness ==
    /\ Active
    /\ faults = 1
    /\ "KeyD" \in held
    /\ device.axis["X"] = 0
    /\ last = MotionEvent(<<40, -40>>)
    /\ Len(calls) = 4
    /\ NotOk(calls) = 0

\* the i-th write of the log is a write of 0 to the axis, followed by its
\* synchronization
ZeroWriteAt(cs, i, axis) ==
    /\ cs[2 * i - 1].call = "write"
    /\ cs[2 * i - 1].event = AbsoluteEvent(axis)
    /\ cs[2 * i - 1].value = 0
    /\ cs[2 * i].call = "synchronize"

\* the step is resumed with the device created: Uninitialized to Active
BecomesActiveStep == Uninitialized /\ Active'

\* C17: the step from Uninitialized to Active writes 0 to the left stick X and
\* Y and to the right stick X and Y, each write followed by a synchronization,
\* and then, after these eight sink calls, asks once for the helper to be
\* spawned; no device event has been delivered before it (none is while
\* Uninitialized), and the timer is Idle after it.
C17_StartupZeroesThenHides ==
    [][ /\ BecomesActiveStep =>
              /\ last' = ResumedEvent
              /\ Len(calls') = 8
              /\ ZeroWriteAt(calls', 1, "X") /\ ZeroWriteAt(calls', 2, "Y")
              /\ ZeroWriteAt(calls', 3, "RX") /\ ZeroWriteAt(calls', 4, "RY")
              /\ Len(procOps') = 1
              /\ procOps'[1].op = "spawn" /\ procOps'[1].after = 8
              /\ xbanish_proc' # None <=> procOps'[1].ok
              /\ delivered = 0 /\ delivered' = 0
              /\ Idle'
        /\ Uninitialized => (delivered' = 0 /\ last'.handler # "device_event")
      ]_vars

\* C17 witness: resumed has just made the session Active: the four axes were
\* zeroed, the helper was spawned after that, no event was delivered yet and
\* the timer is Idle.
C17_Witness ==
    /\ Active
    /\ last = ResumedEvent
    /\ Len(calls) = 8 /\ NotOk(calls) = 0
    /\ procOps = <<ProcOpAfter(8, "spawn", 1, TRUE)>>
    /\ xbanish_proc = Some(1)
    /\ delivered = 0
    /\ Idle

\* the step delivers a press of the toggle key
TogglePressStep == KeyStep("Backslash") /\ last'.pressed

\* the callback attempted one spawn, and a helper is tracked afterwards iff
\* the spawn succeeded (then it is the new, running helper)
SpawnAttempted ==
    /\ Len(procOps') = 1
    /\ procOps'[1].op = "spawn"
    /\ xbanish_proc' # None <=> procOps'[1].ok
    /\ IF procOps'[1].ok
       THEN xbanish_proc' \subseteq running' /\ running' = running \cup xbanish_proc'
       ELSE running' = running
    /\ loop' = loop

\* the toggle key and the exit key are not forwarded to the tables: no sink
\* call is made and the device is as it was; and a release of the toggle key
\* changes nothing
ToggleAndExitNotForwarded ==
    /\ (KeyStep("Backslash") \/ KeyStep("Delete")) =>
            (calls' = <<>> /\ device' = device)
    /\ (KeyStep("Backslash") /\ ~last'.pressed) =>
            /\ procOps' = <<>>
            /\ UNCHANGED <<loop, state, device, xbanish_proc, running, control_flow,
                           now, held>>

\* C18 (as claimed): a press of the toggle key kills and waits on the tracked
\* helper (none is tracked afterwards) or, with none tracked, attempts a
\* spawn; a release changes nothing; toggle and exit key make no sink call.
C18_ToggleKey_Claimed ==
    [][ /\ TogglePressStep =>
              IF xbanish_proc # None THEN HideFalseKilled ELSE SpawnAttempted
        /\ ToggleAndExitNotForwarded ]_vars

\* C18 (amended): as claimed, except that a press with a helper tracked whose
\* kill or wait returns an error panics, the handle already cleared.
C18_ToggleKey ==
    [][ /\ TogglePressStep =>
              IF xbanish_proc # None
              THEN HideFalseKilled \/ HideFalsePanicked
              ELSE SpawnAttempted
        /\ ToggleAndExitNotForwarded ]_vars

\* C18 witness: the toggle key was pressed while Active with helper 1 tracked:
\* it was killed and waited on, none is tracked, no sink call was made.
C18_Witness ==
    /\ Active
    /\ last = KeyEvent("Backslash", TRUE)
    /\ procOps = <<ProcOp("kill", 1, TRUE), ProcOp("wait", 1, TRUE)>>
    /\ xbanish_proc = None
    /\ running = {}
    /\ calls = <<>>

\* the callback made a spawn that failed
SpawnFailedStep ==
    /\ faults' > faults
    /\ \E i \in 1..Len(procOps') : procOps'[i].op = "spawn" /\ ~procOps'[i].ok

\* C19: a spawn that fails in hide_mouse(true) leaves no helper tracked and
\* none started, and the callback ends normally (the session goes on); and a
\* press of the toggle key with no helper tracked, as after a failed spawn,
\* attempts one spawn and no kill.
C19_FailedSpawn ==
    [][ /\ SpawnFailedStep =>
              /\ xbanish_proc' = None
              /\ running' = running
              /\ SessionGoesOn
        /\ (TogglePressStep /\ xbanish_proc = None) =>
              /\ Len(procOps') = 1
              /\ procOps'[1].op = "spawn"
              /\ procOps'[1].ok => xbanish_proc' # None
      ]_vars

\* C19 witness: the spawn of resumed failed (no helper was tracked when the
\* first event came), and the press of the toggle key, the first event,
\* spawned helper 1, the session being Active.
C19_Witness ==
    /\ Active
    /\ last = KeyEvent("Backslash", TRUE)
    /\ delivered = 1
    /\ faults = 1
    /\ procOps = <<ProcOp("spawn", 1, TRUE)>>
    /\ xbanish_proc = Some(1)
    /\ running = {1}

\* the callback wrote to none of the elements
WritesNone(cs, events) ==
    \A i \in 1..Len(cs) : cs[i].call = "write" => cs[i].event \notin events

RightStick == {AbsoluteEvent("RX"), AbsoluteEvent("RY")}
LeftStickAndDigital ==
    {AbsoluteEvent("X"), AbsoluteEvent("Y")} \cup {ControllerEvent(c) : c \in Controllers}

\* C20: a device event other than a motion (key, button, toggle, exit, other)
\* leaves the deadline as it was, Armed or Idle, and writes to neither
\* right-stick axis; a motion and the timer's wake-up write only right-stick
\* axes; and the deadline changes in no step but a motion or the wake-up.  So
\* an event delivered while Armed that leaves the session Active leaves the
\* wake-up due at the deadline that was armed.
C20_OnlyMotionAndTimerTouchTimer ==
    [][ /\ (DeviceEventStep /\ last'.kind # "MouseMotion") =>
              /\ control_flow' = control_flow
              /\ now' = now
              /\ WritesNone(calls', RightStick)
        /\ (MotionStep \/ TimerStep) =>
              (calls' # <<>> /\ WritesNone(calls', LeftStickAndDigital))
        /\ control_flow' # control_flow => (MotionStep \/ TimerStep)
      ]_vars

\* C20 witness: a motion at 0 ms armed the timer for 20 ms; at 10 ms a press
\* of KeyA was delivered and wrote the left stick X; the deadline is still
\* 20 ms.
C20_Witness ==
    /\ Active
    /\ last = KeyEvent("KeyA", TRUE)
    /\ OneAxisWrite(calls, "X", -127)
    /\ delivered = 2
    /\ now = 10
    /\ control_flow = Some(20)

====
